---- MODULE Spec2Model ----
(***************************************************************************)
(* Model of pyro/contrib/funsor/handlers/runtime.py: the DimStack          *)
(* name <-> dim allocator (StackFrame, DimType, DimRequest, NameRequest,   *)
(* DimStack).                                                              *)
(*                                                                         *)
(* _stack is the list of frames.  A frame on the stack is identified by    *)
(* its position: parents holds positions of enclosing frames, which stay   *)
(* put for as long as the frame that names them is on the stack.  A frame  *)
(* that has been popped is never written again (request writes the global  *)
(* frame, the current frame and its parents only), so iter_parents holds   *)
(* the two maps of such a frame by value.                                  *)
(***************************************************************************)
EXTENDS Integers, Sequences, FiniteSets, TLC

VARIABLES _stack, _first_available_dim, last, made, committed

vars == <<_stack, _first_available_dim, last, made, committed>>

(***************************************************************************)
(* Bounds of the model                                                     *)
(***************************************************************************)
\* deepest stack, the global frame included
MaxDepth == 2
\* deepest stack of the specification of nested scopes
NestDepth == 3
\* longest parents tuple a pushed frame is wired with
MaxLinks == 1
\* bindings held by the frames on the stack (and by their iter_parents),
\* beyond which nothing more is allocated
MaxBindings == 1
\* the same, for the specifications that need two bindings side by side
MoreBindings == 2
\* deepest stack and bindings held of the specification of scopes re-entered
KeepDepth == 4
KeepBindings == 3

(***************************************************************************)
(* Values                                                                  *)
(***************************************************************************)
MAX_DIM == -25

\* Python None in a dim position and in a name position
NullDim == 1
NullName == "<None>"

Local == "LOCAL"
Global == "GLOBAL"
Visible == "VISIBLE"
DimType == {Local, Global, Visible}

EmptyMap == [k \in {} |-> k]

Put(m, k, v) == [j \in (DOMAIN m) \cup {k} |-> IF j = k THEN v ELSE m[j]]

\* dict.pop(k, None)
Drop(m, k) == [j \in (DOMAIN m) \ {k} |-> m[j]]

(***************************************************************************)
(* StackFrame                                                              *)
(***************************************************************************)
StackFrame(parents, iter_parents, keep) ==
    [name_to_dim |-> EmptyMap, dim_to_name |-> EmptyMap,
     parents |-> parents, iter_parents |-> iter_parents, keep |-> keep]

read(f, name, dim) ==
    [name |-> IF dim \in DOMAIN f.dim_to_name THEN f.dim_to_name[dim] ELSE name,
     dim |-> IF name \in DOMAIN f.name_to_dim THEN f.name_to_dim[name] ELSE dim,
     found |-> name \in DOMAIN f.name_to_dim \/ dim \in DOMAIN f.dim_to_name]

\* write that stores the dim -> name direction only
writeOneWay(f, name, dim) == [f EXCEPT !.dim_to_name = Put(@, dim, name)]

write(f, name, dim) ==
    [f EXCEPT !.dim_to_name = Put(@, dim, name),
              !.name_to_dim = Put(@, name, dim)]

\* the assertion of write
WriteOk(name, dim) == name # NullName /\ dim # NullDim

free(f, name, dim) ==
    [f EXCEPT !.dim_to_name = Drop(@, dim),
              !.name_to_dim = Drop(@, name)]

(***************************************************************************)
(* DimStack accessors                                                      *)
(***************************************************************************)
\* positions in the stack of the current and of the global frame
current_frame(st) == Len(st)

global_frame(st) == 1

\* the two maps of a frame, as lookup and conflict search read them
Maps(f) == [name_to_dim |-> f.name_to_dim, dim_to_name |-> f.dim_to_name]

\* the frames of current_env in order, each as the maps it holds
current_env(st) ==
    LET cur == st[current_frame(st)]
    IN  <<Maps(st[global_frame(st)]), Maps(cur)>>
            \o cur.iter_parents
            \o [i \in 1..Len(cur.parents) |-> Maps(st[cur.parents[i]])]

(***************************************************************************)
(* DimStack.set_first_available_dim                                        *)
(***************************************************************************)
\* the range check with its lower end included
ValidWatermarkClosed(dim) == dim = NullDim \/ (MAX_DIM <= dim /\ dim < 0)

ValidWatermark(dim) == dim = NullDim \/ (MAX_DIM < dim /\ dim < 0)

(***************************************************************************)
(* DimStack._gendim                                                        *)
(***************************************************************************)
\* the conflict search over the current frame alone
ConflictCurrentOnly(env, d) == d \in DOMAIN env[2].dim_to_name

Conflict(env, d) == \E i \in 1..Len(env) : d \in DOMAIN env[i].dim_to_name

RECURSIVE SearchDim(_, _)
SearchDim(env, d) ==
    IF Conflict(env, d) THEN SearchDim(env, d - 1) ELSE d

FreshName(name, dim) ==
    IF name = NullName THEN "_pyro_dim_" \o ToString(-dim) ELSE name

StartDim(fad, dim_type) ==
    LET d == IF dim_type # Visible THEN fad ELSE -1
    IN  IF d = NullDim THEN -1 ELSE d

FreshDim(env, fad, dim, dim_type) ==
    IF dim = NullDim THEN SearchDim(env, StartDim(fad, dim_type)) ELSE dim

\* the floor check one dim too low
BelowFloorOffByOne(d) == d < MAX_DIM - 1

BelowFloor(d) == d < MAX_DIM

\* the watermark check with a strict comparison
VisibleBlockedStrict(fad, d) == d < fad

VisibleBlocked(fad, d) == d <= fad

\* outcome of lines 106-109: the three disjuncts are evaluated left to right,
\* and the last one compares an int with None when the watermark is unset
GendimCheck(env, fad, d, dim_type) ==
    IF BelowFloor(d) \/ Conflict(env, d) THEN "ValueError"
    ELSE IF dim_type # Visible THEN "ok"
    ELSE IF fad = NullDim THEN "TypeError"
    ELSE IF VisibleBlocked(fad, d) THEN "ValueError"
    ELSE "ok"

_gendim(env, fad, name, dim, dim_type) ==
    IF name = NullName /\ dim = NullDim
    THEN [kind |-> "TypeError", name |-> name, dim |-> dim]
    ELSE LET d == FreshDim(env, fad, dim, dim_type)
         IN  [kind |-> GendimCheck(env, fad, d, dim_type),
              name |-> FreshName(name, dim), dim |-> d]

(***************************************************************************)
(* DimStack.request                                                        *)
(***************************************************************************)
RECURSIVE ReadEnv(_, _, _, _)
ReadEnv(env, i, name, dim) ==
    IF i > Len(env) THEN [name |-> name, dim |-> dim, found |-> FALSE]
    ELSE LET r == read(env[i], name, dim)
         IN  IF r.found THEN r ELSE ReadEnv(env, i + 1, r.name, r.dim)

\* positions of the frames a fresh binding is stored in
write_frames(st, dim_type) ==
    IF dim_type # Local THEN <<global_frame(st)>>
    ELSE <<current_frame(st)>>
            \o (IF st[current_frame(st)].keep THEN st[current_frame(st)].parents ELSE <<>>)

RECURSIVE WriteAll(_, _, _, _, _)
WriteAll(st, targets, i, name, dim) ==
    IF i > Len(targets) THEN st
    ELSE WriteAll([st EXCEPT ![targets[i]] = write(@, name, dim)],
                  targets, i + 1, name, dim)

\* request that stores the candidate binding before _gendim has checked it
requestWriteFirst(st, fad, name, dim, dim_type) ==
    LET env == current_env(st)
        r == ReadEnv(env, 1, name, dim)
    IN  IF r.found
        THEN [kind |-> "ok", name |-> r.name, dim |-> r.dim, alloc |-> FALSE, stack |-> st]
        ELSE LET g == _gendim(env, fad, r.name, r.dim, dim_type)
             IN  IF g.kind = "TypeError"
                 THEN [kind |-> g.kind, name |-> g.name, dim |-> g.dim,
                       alloc |-> FALSE, stack |-> st]
                 ELSE [kind |-> g.kind, name |-> g.name, dim |-> g.dim,
                       alloc |-> g.kind = "ok",
                       stack |-> WriteAll(st, write_frames(st, dim_type), 1, g.name, g.dim)]

\* the whole of request(name, dim) once the placeholder is unpacked: kind is
\* "ok" or the exception raised, alloc tells whether a binding was committed,
\* stack is the stack after the call
request(st, fad, name, dim, dim_type) ==
    LET env == current_env(st)
        r == ReadEnv(env, 1, name, dim)
    IN  IF r.found
        THEN [kind |-> "ok", name |-> r.name, dim |-> r.dim, alloc |-> FALSE, stack |-> st]
        ELSE LET g == _gendim(env, fad, r.name, r.dim, dim_type)
             IN  IF g.kind # "ok"
                 THEN [kind |-> g.kind, name |-> g.name, dim |-> g.dim,
                       alloc |-> FALSE, stack |-> st]
                 ELSE [kind |-> "ok", name |-> g.name, dim |-> g.dim, alloc |-> TRUE,
                       stack |-> WriteAll(st, write_frames(st, dim_type), 1, g.name, g.dim)]

(***************************************************************************)
(* State machine                                                           *)
(***************************************************************************)
NoFrame == StackFrame(<<>>, <<>>, FALSE)

\* the last call: its arguments, the length of the stack it was made on, how
\* it ended and what it returned (on an error of _gendim, rdim is the
\* candidate dim it rejected)
NoCall ==
    [op |-> "init", name |-> NullName, dim |-> NullDim, dim_type |-> Local,
     kind |-> "ok", rname |-> NullName, rdim |-> NullDim, alloc |-> FALSE,
     frame |-> NoFrame, made |-> {}, depth |-> 0]

\* the bindings held by the frames on the stack and by their iter_parents
RECURSIVE SumBindings(_, _)
SumBindings(fs, i) ==
    IF i > Len(fs) THEN 0
    ELSE Cardinality(DOMAIN fs[i].dim_to_name)
            + (IF "iter_parents" \in DOMAIN fs[i] THEN SumBindings(fs[i].iter_parents, 1) ELSE 0)
            + SumBindings(fs, i + 1)

NumBindings == SumBindings(_stack, 1)

\* parents as the handlers wire them: the nearest k enclosing frames, innermost first
Enclosing(st, k) == [i \in 1..k |-> Len(st) + 1 - i]

\* iter_parents as the handlers wire them: nothing, or the frame the preceding
\* pop handed back (the previous iteration of the same scope)
PreviousIterations ==
    {<<>>} \cup (IF last.op = "pop" /\ last.kind = "ok" THEN {<<Maps(last.frame)>>} ELSE {})

Init ==
    /\ _stack = <<StackFrame(<<>>, <<>>, FALSE)>>
    /\ _first_available_dim = -1
    /\ last = NoCall
    /\ made = <<{}>>
    /\ committed = {}

SetFirstAvailableDim(dim) ==
    /\ IF ValidWatermark(dim)
       THEN /\ _first_available_dim' = dim
            /\ last' = [NoCall EXCEPT !.op = "set_first_available_dim", !.depth = Len(_stack),
                                      !.dim = dim,
                                      !.rdim = _first_available_dim]
       ELSE /\ _first_available_dim' = _first_available_dim
            /\ last' = [NoCall EXCEPT !.op = "set_first_available_dim", !.depth = Len(_stack),
                                      !.dim = dim,
                                      !.kind = "AssertionError"]
    /\ UNCHANGED <<_stack, made, committed>>

Push(parents, iter_parents, keep) ==
    /\ _stack' = Append(_stack, StackFrame(parents, iter_parents, keep))
    /\ made' = Append(made, {})
    /\ last' = [NoCall EXCEPT !.op = "push", !.depth = Len(_stack)]
    /\ UNCHANGED <<_first_available_dim, committed>>

\* the guard of pop that lets the last frame go
PopOkAny(st) == Len(st) > 0

PopOk(st) == Len(st) > 1

\* a pop that takes the bottom frame instead of the top one
PoppedBottom(st) == SubSeq(st, 2, Len(st))

Popped(st) == SubSeq(st, 1, Len(st) - 1)

Pop ==
    /\ IF PopOk(_stack)
       THEN /\ _stack' = Popped(_stack)
            /\ made' = SubSeq(made, 1, Len(made) - 1)
            /\ last' = [NoCall EXCEPT !.op = "pop", !.depth = Len(_stack),
                                      !.frame = _stack[Len(_stack)],
                                      !.made = made[Len(made)]]
       ELSE /\ _stack' = _stack
            /\ made' = made
            /\ last' = [NoCall EXCEPT !.op = "pop", !.depth = Len(_stack),
                                      !.kind = "AssertionError"]
    /\ UNCHANGED <<_first_available_dim, committed>>

Request(name, dim, dim_type) ==
    LET o == request(_stack, _first_available_dim, name, dim, dim_type)
    IN  /\ _stack' = o.stack
        /\ made' = IF o.alloc /\ current_frame(_stack) # global_frame(_stack)
                   THEN [made EXCEPT ![current_frame(_stack)] =
                            @ \cup {[name |-> o.name, dim_type |-> dim_type]}]
                   ELSE made
        /\ committed' = IF o.alloc /\ dim_type # Local
                        THEN committed \cup {<<o.name, o.dim>>}
                        ELSE committed
        /\ last' = [NoCall EXCEPT !.op = "request", !.depth = Len(_stack),
                                  !.name = name, !.dim = dim,
                                  !.dim_type = dim_type, !.kind = o.kind,
                                  !.rname = o.name, !.rdim = o.dim, !.alloc = o.alloc]
        /\ UNCHANGED _first_available_dim

\* current_frame.write(name, dim), called by a client of the stack
Write(name, dim) ==
    LET cur == current_frame(_stack)
    IN  /\ IF WriteOk(name, dim)
           THEN /\ _stack' = [_stack EXCEPT ![cur] = write(@, name, dim)]
                /\ last' = [NoCall EXCEPT !.op = "write", !.depth = Len(_stack),
                                          !.name = name, !.dim = dim,
                                          !.frame = _stack[cur]]
           ELSE /\ _stack' = _stack
                /\ last' = [NoCall EXCEPT !.op = "write", !.depth = Len(_stack),
                                          !.name = name, !.dim = dim,
                                          !.frame = _stack[cur],
                                          !.kind = "AssertionError"]
        /\ UNCHANGED <<_first_available_dim, made, committed>>

\* current_frame.free(name, dim), called by a client of the stack
Free(name, dim) ==
    LET cur == current_frame(_stack)
    IN  /\ _stack' = [_stack EXCEPT ![cur] = free(@, name, dim)]
        /\ last' = [NoCall EXCEPT !.op = "free", !.depth = Len(_stack),
                                  !.name = name, !.dim = dim,
                                  !.rname = name, !.rdim = dim,
                                  !.frame = _stack[cur]]
        /\ UNCHANGED <<_first_available_dim, made, committed>>

\* the calls a client makes, with arguments drawn from the given sets; a request
\* that would commit a binding is taken only while fewer than maxBindings are
\* held; iterations tells whether frames are wired to a previous iteration
Calls(names, dims, watermarks, maxDepth, maxLinks, maxBindings, iterations) ==
    \/ \E dim \in watermarks : SetFirstAvailableDim(dim)
    \/ \E k \in 0..maxLinks, keep \in BOOLEAN,
          iter_parents \in (IF iterations THEN PreviousIterations ELSE {<<>>}) :
          /\ Len(_stack) < maxDepth
          /\ k <= Len(_stack)
          /\ keep => k > 0
          /\ Push(Enclosing(_stack, k), iter_parents, keep)
    \/ Pop
    \/ \E name \in names \cup {NullName}, dim \in dims \cup {NullDim}, dim_type \in DimType :
          /\ request(_stack, _first_available_dim, name, dim, dim_type).alloc
                => NumBindings < maxBindings
          /\ Request(name, dim, dim_type)

\* One name, one explicit dim, and every kind of watermark: unset, the two
\* ends -1 and -24 of the accepted range, and their rejected neighbours 0 and
\* MAX_DIM.
Next ==
    Calls({"x"}, {-2}, {NullDim, -1, -24, 0, -25},
          MaxDepth, MaxLinks, MaxBindings, FALSE)

Spec == Init /\ [][Next]_vars

\* Allocation next to the floor: with the watermark at -24 the search starts one
\* above MAX_DIM, and two bindings push it below.
NextFloor ==
    Calls({"x", "y"}, {-25, -26}, {-24, 0}, MaxDepth, MaxLinks, MoreBindings, FALSE)

SpecFloor == Init /\ [][NextFloor]_vars

\* Nested scopes: three frames deep, frames wired to the nearest enclosing
\* frame or to none, and to the previous iteration.
NextNest == Calls({"x", "y"}, {}, {-1, 0}, NestDepth, MaxLinks, MoreBindings, TRUE)

SpecNest == Init /\ [][NextNest]_vars

\* A caller-chosen name of the form _gendim synthesizes for an explicit dim.
NextSynth == Calls({"_pyro_dim_2"}, {-2}, {-3, 0}, MaxDepth, MaxLinks, MoreBindings, FALSE)

SpecSynth == Init /\ [][NextSynth]_vars

\* The window above the watermark: with the watermark at -3 the dims -1 and -2
\* are those a Visible request may take, and explicit dims fill them.
NextVisible == Calls({"x"}, {-1, -2}, {-3, 0}, MaxDepth, MaxLinks, MoreBindings, FALSE)

SpecVisible == Init /\ [][NextVisible]_vars

\* Scopes re-entered: four frames deep, so that a frame wired to no parent sits
\* on top of a frame wired to a parent other than the global frame; one name,
\* and the watermark moved to -2.
NextKeep == Calls({"x"}, {}, {-2, 0}, KeepDepth, MaxLinks, KeepBindings, FALSE)

SpecKeep == Init /\ [][NextKeep]_vars

\* A frame written and freed directly: two names and two dims, and None in
\* either position.
NextFrame ==
    \/ \E name \in {"x", "y", NullName}, dim \in {-1, -2, NullDim} : Write(name, dim)
    \/ \E name \in {"x", "y", NullName}, dim \in {-1, -2, NullDim} : Free(name, dim)

SpecFrame == Init /\ [][NextFrame]_vars

(***************************************************************************)
(* Claims                                                                  *)
(***************************************************************************)

\* C1: no cross-scope collision.  In every reachable state no dim is bound to
\* two different names by two frames of current_env (the global frame, the
\* current frame, its iter_parents and its parents).
NoCrossScopeCollision ==
    LET env == current_env(_stack)
    IN  \A i, j \in 1..Len(env) :
            \A d \in (DOMAIN env[i].dim_to_name) \cap (DOMAIN env[j].dim_to_name) :
                env[i].dim_to_name[d] = env[j].dim_to_name[d]

\* the two maps of frame f are inverses of each other
Inverses(f) ==
    /\ \A n \in DOMAIN f.name_to_dim :
            /\ f.name_to_dim[n] \in DOMAIN f.dim_to_name
            /\ f.dim_to_name[f.name_to_dim[n]] = n
    /\ \A d \in DOMAIN f.dim_to_name :
            /\ f.dim_to_name[d] \in DOMAIN f.name_to_dim
            /\ f.name_to_dim[f.dim_to_name[d]] = d

\* C2: bijection.  In every frame of the stack name_to_dim and dim_to_name are
\* exact inverses: name_to_dim[n] = s if and only if dim_to_name[s] = n.
Bijection == \A i \in 1..Len(_stack) : Inverses(_stack[i])

\* C5: a binding (n, s) that request allocated under Global or Visible policy
\* is permanent: in every later state a request for n without an explicit
\* dim, under any policy, returns s.
CommittedForever ==
    \A b \in committed : \A dim_type \in DimType :
        LET o == request(_stack, _first_available_dim, b[1], NullDim, dim_type)
        IN  o.kind = "ok" /\ o.dim = b[2]

\* a frame of the stack below position n, or one of its iter_parents, binds name
BoundBelow(n, name) ==
    \E i \in 1..(n - 1) :
        \/ name \in DOMAIN _stack[i].name_to_dim
        \/ \E j \in 1..Len(_stack[i].iter_parents) :
                name \in DOMAIN _stack[i].iter_parents[j].name_to_dim

Resolvable(name) == ReadEnv(current_env(_stack), 1, name, NullDim).found

JustPopped == last.op = "pop" /\ last.kind = "ok"

\* C3 as claimed: after pop the stack is one frame shorter, and no name that
\* was allocated while the popped frame was current is found by lookup.
PopForgetsEveryBinding ==
    JustPopped =>
        /\ Len(_stack) = last.depth - 1
        /\ \A b \in last.made : ~Resolvable(b.name)

\* after a pop: a name allocated under Global or Visible policy while the
\* popped frame was current is still found, and a name allocated under Local
\* policy in a frame with keep = false is found only if a frame below the
\* popped one (or one of its iter_parents) binds that name itself
PopForgetsLocal ==
    JustPopped =>
        /\ Len(_stack) = last.depth - 1
        /\ \A b \in last.made :
              /\ b.dim_type # Local => Resolvable(b.name)
              /\ (b.dim_type = Local /\ ~last.frame.keep /\ Resolvable(b.name))
                    => BoundBelow(last.depth, b.name)

\* a pop returns the top frame and leaves the frames below it as they were
PopRestores ==
    (last'.op = "pop" /\ last'.kind = "ok") =>
        /\ last'.frame = _stack[Len(_stack)]
        /\ _stack' = SubSeq(_stack, 1, Len(_stack) - 1)

\* a request under Local policy in a frame with keep = false changes no frame
\* below the current one
LocalStaysInFrame ==
    (last'.op = "request" /\ last'.dim_type = Local /\ ~_stack[Len(_stack)].keep) =>
        /\ Len(_stack') = Len(_stack)
        /\ \A i \in 1..(Len(_stack) - 1) : _stack'[i] = _stack[i]

\* C3 as amended: balanced nesting.  A pop returns the top frame and leaves the
\* frames below it as they were, so that the frame current before the push is
\* current again.  A binding allocated under Local policy while a frame with
\* keep = false was current is written into that frame only, so after the pop
\* its name is found only if a frame below binds that name itself; a name
\* allocated under Global or Visible policy is still found.
BalancedNesting ==
    /\ []PopForgetsLocal
    /\ [][PopRestores]_vars
    /\ [][LocalStaysInFrame]_vars

\* C3 witness: a frame with keep = false was popped after a Local allocation
\* made in it, and its name is no longer found.
PoppedLocalForgotten ==
    /\ JustPopped
    /\ ~last.frame.keep
    /\ \E b \in last.made : b.dim_type = Local /\ ~Resolvable(b.name)

\* C4: idempotent resolution.  When the last call was a request that returned
\* (n, s), the same request made again in this state returns (n, s), commits
\* nothing and leaves every frame as it is.
IdempotentResolution ==
    (last.op = "request" /\ last.kind = "ok") =>
        LET o == request(_stack, _first_available_dim, last.name, last.dim, last.dim_type)
        IN  /\ o.kind = "ok"
            /\ o.name = last.rname
            /\ o.dim = last.rdim
            /\ ~o.alloc
            /\ o.stack = _stack

\* C4 witness: the last request allocated, so that repeating it is the first
\* lookup of the fresh binding.
RequestAllocated == last.op = "request" /\ last.kind = "ok" /\ last.alloc

\* C6: Visible-policy ordering.  Whenever request allocates under Visible
\* policy, with or without an explicit dim, the watermark is set and the dim
\* it returns is strictly greater than the watermark.
VisibleAboveWatermark ==
    (last.op = "request" /\ last.alloc /\ last.dim_type = Visible) =>
        /\ _first_available_dim # NullDim
        /\ last.rdim > _first_available_dim

\* C6 witness: a Visible allocation of an explicit dim.
VisibleAllocatedExplicit ==
    /\ last.op = "request" /\ last.alloc /\ last.dim_type = Visible
    /\ last.dim # NullDim

\* C7: floor respected.  No frame ever holds a dim below MAX_DIM, no request
\* returns one, and a request whose candidate dim is below MAX_DIM ends in the
\* allocation-exhausted error.
FloorRespected ==
    /\ \A i \in 1..Len(_stack) : \A d \in DOMAIN _stack[i].dim_to_name : d >= MAX_DIM
    /\ (last.op = "request" /\ last.kind = "ok") => last.rdim >= MAX_DIM
    /\ (last.op = "request" /\ last.rdim < MAX_DIM) =>
            (last.kind = "ValueError" /\ ~last.alloc)

\* C7 witness: the search for a fresh dim (no explicit dim given) ran below
\* MAX_DIM and the request failed.
SearchRanBelowFloor ==
    /\ last.op = "request" /\ last.dim = NullDim
    /\ last.rdim < MAX_DIM /\ last.kind = "ValueError"

\* push and pop leave the bottom frame in place, and pop on a stack of length
\* 1 fails and leaves the stack unchanged
BottomStays ==
    /\ last'.op \in {"push", "pop"} => _stack'[1] = _stack[1]
    /\ (last'.op = "pop" /\ Len(_stack) = 1) =>
            (last'.kind = "AssertionError" /\ _stack' = _stack)

\* C8: the stack always holds at least one frame, push and pop leave its
\* bottom frame in place, and pop on a stack of length 1 fails as a programmer
\* error and leaves the stack unchanged.
GlobalFrameStays == [](Len(_stack) >= 1) /\ [][BottomStays]_vars

\* C8 witness: pop was called on the stack that holds the global frame only.
PopRefused == last.op = "pop" /\ last.kind = "AssertionError" /\ Len(_stack) = 1

\* C9: a request ends by returning a pair or with the allocation-exhausted
\* error (ValueError), and in no other way.
RequestEndsTwoWays == last.op = "request" => last.kind \in {"ok", "ValueError"}

\* unset, or strictly between MAX_DIM and 0
InRange(dim) == dim = NullDim \/ dim \in (MAX_DIM + 1)..(-1)

\* the watermark is in range, and the last set_first_available_dim succeeded
\* exactly on a value in range, installed it and returned a value in range
WatermarkInRange ==
    /\ InRange(_first_available_dim)
    /\ last.op = "set_first_available_dim" =>
            /\ last.kind = "ok" <=> InRange(last.dim)
            /\ last.kind = "ok" =>
                    /\ _first_available_dim = last.dim
                    /\ InRange(last.rdim)
                    /\ ValidWatermark(last.rdim)

\* set_first_available_dim returns the previous watermark, leaves the stack
\* alone, and leaves the watermark alone when it fails
WatermarkSwap ==
    last'.op = "set_first_available_dim" =>
        /\ _stack' = _stack
        /\ last'.kind = "ok" => last'.rdim = _first_available_dim
        /\ last'.kind # "ok" => _first_available_dim' = _first_available_dim

\* C10: scoped watermark override.  set_first_available_dim accepts exactly
\* unset and the dims strictly between MAX_DIM and 0, returns the previous
\* watermark and changes nothing but the watermark; the watermark is always
\* unset or in that range, so the value a call returned is accepted when it
\* is passed back.
ScopedWatermarkOverride == []WatermarkInRange /\ [][WatermarkSwap]_vars

\* C10 witness: an override is undone by passing back the value the
\* overriding call returned: the watermark is -1 again after it was -24.
WatermarkRestored ==
    /\ last.op = "set_first_available_dim" /\ last.kind = "ok"
    /\ last.dim = -1 /\ last.rdim = -24 /\ _first_available_dim = -1

\* the two maps of a frame that holds the one binding name <-> dim
OneBinding(name, dim) ==
    [name_to_dim |-> Put(EmptyMap, name, dim), dim_to_name |-> Put(EmptyMap, dim, name)]

TwoBindings(n1, d1, n2, d2) ==
    [name_to_dim |-> Put(Put(EmptyMap, n1, d1), n2, d2),
     dim_to_name |-> Put(Put(EmptyMap, d1, n1), d2, n2)]

NoBinding == [name_to_dim |-> EmptyMap, dim_to_name |-> EmptyMap]

\* the states of the example trace: a fresh stack; x allocated in the global
\* scope and an empty frame B with keep = false and no iter_parents pushed;
\* B popped after y was allocated in it under Local policy
ExampleFresh ==
    /\ Len(_stack) = 1 /\ _first_available_dim = -1
    /\ Maps(_stack[1]) = NoBinding

ExampleInB ==
    /\ Len(_stack) = 2 /\ _first_available_dim = -1
    /\ Maps(_stack[1]) = OneBinding("x", -1)
    /\ Maps(_stack[2]) = NoBinding /\ ~_stack[2].keep
    /\ _stack[2].iter_parents = <<>>

ExampleAfterPop ==
    /\ JustPopped /\ Len(_stack) = 1 /\ _first_available_dim = -1
    /\ Maps(_stack[1]) = OneBinding("x", -1)
    /\ Maps(last.frame) = OneBinding("y", -2) /\ ~last.frame.keep
    /\ last.made = {[name |-> "y", dim_type |-> Local]}

\* a Local request for name without an explicit dim allocates dim
AllocatesLocal(name, dim) ==
    LET o == request(_stack, _first_available_dim, name, NullDim, Local)
    IN  o.kind = "ok" /\ o.alloc /\ o.name = name /\ o.dim = dim

ExampleStates ==
    /\ ExampleFresh => AllocatesLocal("x", -1)
    /\ ExampleInB => AllocatesLocal("y", -2)
    /\ ExampleAfterPop => AllocatesLocal("y", -2)

\* the request for y made right after the pop of B
ExampleReuse ==
    (ExampleAfterPop /\ last'.op = "request" /\ last'.name = "y"
        /\ last'.dim = NullDim /\ last'.dim_type = Local) =>
            /\ last'.kind = "ok" /\ last'.alloc
            /\ last'.rname = "y" /\ last'.rdim = -2
            /\ Maps(_stack'[1]) = TwoBindings("x", -1, "y", -2)

\* C11: slot reuse after scope exit.  On a fresh stack with watermark -1 a Local
\* request for x returns (x, -1); in an empty frame B with keep = false pushed
\* on top a Local request for y returns (y, -2); after B is popped a Local
\* request for y in the global scope is a new allocation and returns (y, -2)
\* again.
SlotReuseAfterExit == []ExampleStates /\ [][ExampleReuse]_vars

\* C11 witness: B was popped after y was allocated in it at -2, the global
\* frame holding x at -1.
ExampleScopeExited == ExampleAfterPop

\* C12: write preserves the bijection.  Applied to a frame whose two maps are
\* exact inverses, write(name, dim) with name and dim not None leaves the two
\* maps exact inverses, with name bound to dim.
WritePreservesBijection ==
    (last.op = "write" /\ last.kind = "ok" /\ Inverses(last.frame)) =>
        LET f == _stack[last.depth]
        IN  /\ Inverses(f)
            /\ last.name \in DOMAIN f.name_to_dim /\ f.name_to_dim[last.name] = last.dim
            /\ last.dim \in DOMAIN f.dim_to_name /\ f.dim_to_name[last.dim] = last.name

\* frame f binds name to dim and dim to name
Holds(f, name, dim) ==
    /\ name \in DOMAIN f.name_to_dim /\ f.name_to_dim[name] = dim
    /\ dim \in DOMAIN f.dim_to_name /\ f.dim_to_name[dim] = name

\* C13: free(name, dim) applied to a frame whose maps are exact inverses removes
\* the binding name <-> dim in both directions when the frame holds it, changes
\* nothing when the frame does not hold that pair, and leaves the maps exact
\* inverses.
FreeRemovesPair ==
    (last.op = "free" /\ Inverses(last.frame)) =>
        LET f == _stack[last.depth]
        IN  /\ Inverses(f)
            /\ Holds(last.frame, last.name, last.dim) =>
                    /\ f.name_to_dim = Drop(last.frame.name_to_dim, last.name)
                    /\ f.dim_to_name = Drop(last.frame.dim_to_name, last.dim)
            /\ ~Holds(last.frame, last.name, last.dim) => f = last.frame

\* the positions of the frames a request of the given policy has to write:
\* the global frame, or the current frame and, when it has keep = true, its
\* parents
Targets(st, dim_type) ==
    IF dim_type # Local THEN {1}
    ELSE {Len(st)} \cup (IF st[Len(st)].keep
                         THEN {st[Len(st)].parents[j] : j \in 1..Len(st[Len(st)].parents)}
                         ELSE {})

\* frame g is frame f with the one binding name <-> dim added to it
AddsOnly(f, g, name, dim) ==
    /\ name \notin DOMAIN f.name_to_dim /\ dim \notin DOMAIN f.dim_to_name
    /\ g = [f EXCEPT !.name_to_dim = Put(@, name, dim), !.dim_to_name = Put(@, dim, name)]

CommitsToTargets ==
    (last'.op = "request" /\ last'.alloc) =>
        /\ Len(_stack') = Len(_stack)
        /\ _first_available_dim' = _first_available_dim
        /\ \A i \in 1..Len(_stack) :
              IF i \in Targets(_stack, last'.dim_type)
              THEN AddsOnly(_stack[i], _stack'[i], last'.rname, last'.rdim)
              ELSE _stack'[i] = _stack[i]

LookupChangesNothing ==
    (last'.op = "request" /\ last'.kind = "ok" /\ ~last'.alloc) =>
        /\ _stack' = _stack
        /\ _first_available_dim' = _first_available_dim

\* C14: commit targets.  A request that allocates adds the one binding it
\* returns to the global frame when the policy is Global or Visible, and to the
\* current frame and, when keep is true, to each of its parents when the policy
\* is Local; it leaves every other frame, the length of the stack and the
\* watermark unchanged.  A request resolved by lookup changes nothing.
CommitTargets == [][CommitsToTargets /\ LookupChangesNothing]_vars

\* the dims bound by the frames of env
BoundDims(env) == UNION {DOMAIN env[i].dim_to_name : i \in 1..Len(env)}

\* the greatest integer s <= top that no frame of env binds
GreatestFree(env, top) ==
    CHOOSE s \in (top - Cardinality(BoundDims(env)))..top :
        /\ s \notin BoundDims(env)
        /\ \A t \in (s + 1)..top : t \in BoundDims(env)

\* no frame of env binds name, so that a request for it without an explicit
\* dim is not resolved by lookup
Unbound(env, name) == \A i \in 1..Len(env) : name \notin DOMAIN env[i].name_to_dim

\* the watermark, or -1 when it is unset
Watermark == IF _first_available_dim = NullDim THEN -1 ELSE _first_available_dim

\* a request without an explicit dim, under one of the given policies, that
\* lookup does not resolve
SearchesFreshDim(policies) ==
    /\ last'.op = "request" /\ last'.dim = NullDim /\ last'.dim_type \in policies
    /\ Unbound(current_env(_stack), last'.name)

FreshLocalGlobal ==
    SearchesFreshDim({Local, Global}) =>
        LET s == GreatestFree(current_env(_stack), Watermark)
        IN  /\ last'.kind = "ValueError" <=> s < MAX_DIM
            /\ last'.kind = "ok" => (last'.alloc /\ last'.rdim = s)
            /\ last'.alloc => last'.rdim <= Watermark

\* C15: fresh slot for Local and Global policy.  A request without an explicit
\* dim that lookup does not resolve returns the greatest integer s <= w that no
\* frame of current_env binds, w being the watermark (-1 when unset), never a
\* dim between the watermark and 0, and it fails with the allocation-exhausted
\* error exactly when s is below MAX_DIM.
FreshSlotLocalGlobal == [][FreshLocalGlobal]_vars

\* the same for the requests that give a name
FreshLocalGlobalNamed == [][last'.name # NullName => FreshLocalGlobal]_vars

FreshVisible ==
    (SearchesFreshDim({Visible}) /\ _first_available_dim # NullDim) =>
        LET s == GreatestFree(current_env(_stack), -1)
        IN  /\ s > _first_available_dim =>
                    (last'.kind = "ok" /\ last'.alloc /\ last'.rdim = s)
            /\ last'.kind = "ValueError" <=> s <= _first_available_dim

\* C16: fresh slot for Visible policy.  With the watermark w set, a request
\* without an explicit dim that lookup does not resolve takes as candidate the
\* greatest integer s <= -1 that no frame of current_env binds, whatever w is;
\* it returns s when s > w and fails with the allocation-exhausted error
\* exactly when s <= w, that is, when no unbound dim above w exists.
FreshSlotVisible == [][FreshVisible]_vars

\* the same for the requests that give a name
FreshVisibleNamed == [][last'.name # NullName => FreshVisible]_vars

\* with the watermark at -3 and both -1 and -2 bound, a Visible request for an
\* unbound name has failed
VisibleWindowFull ==
    /\ last.op = "request" /\ last.dim_type = Visible /\ last.name = "x"
    /\ last.dim = NullDim /\ last.kind = "ValueError"
    /\ _first_available_dim = -3
    /\ {-1, -2} \subseteq BoundDims(current_env(_stack))

\* a request that fails with the allocation-exhausted error leaves the stack
\* and the watermark as they were, and the same request made again fails again
FailureChangesNothing ==
    (last'.op = "request" /\ last'.kind = "ValueError") =>
        /\ _stack' = _stack
        /\ _first_available_dim' = _first_available_dim
        /\ ~last'.alloc
        /\ request(_stack', _first_available_dim',
                   last'.name, last'.dim, last'.dim_type).kind = "ValueError"

\* C17: a failed request has no effect.  When request fails with the
\* allocation-exhausted error every frame, the stack and the watermark are as
\* before the call, and the same request repeated in that state fails in the
\* same way.
FailedRequestNoEffect == [][FailureChangesNothing]_vars

\* C17 witness: a Local request failed in a frame with keep = true, whose
\* parents it would have written as well.
LocalRequestFailedUnderKeep ==
    /\ last.op = "request" /\ last.kind = "ValueError" /\ last.dim_type = Local
    /\ Len(_stack) > 1 /\ _stack[Len(_stack)].keep

\* the stack after a new empty frame with the parents of the frame just popped
\* is pushed
ReEntered(iter_parents, keep) ==
    Append(_stack, StackFrame(last.frame.parents, iter_parents, keep))

\* C18: keep propagation across re-entries.  When a frame F with keep = true is
\* popped, every name n that a Local request allocated while F was current,
\* bound by F to dim s, is resolved to s again by a request without an explicit
\* dim made in a new empty frame pushed with the parents of F.
KeepPropagation ==
    (JustPopped /\ last.frame.keep) =>
        \A b \in last.made : b.dim_type = Local =>
            \A iter_parents \in PreviousIterations, keep \in BOOLEAN, dim_type \in DimType :
                LET o == request(ReEntered(iter_parents, keep), _first_available_dim,
                                 b.name, NullDim, dim_type)
                IN  o.kind = "ok" /\ o.dim = last.frame.name_to_dim[b.name]

\* C19: the pair returned by request is an actual binding.  Whenever the last
\* call was a request that returned (n, s), some frame of current_env binds n
\* to s and s to n.
ReturnedPairIsBinding ==
    (last.op = "request" /\ last.kind = "ok") =>
        \E i \in 1..Len(current_env(_stack)) :
            Holds(current_env(_stack)[i], last.rname, last.rdim)

\* the dim a request allocated for the name of b while the current frame was
\* current: the one the frame it was written into binds the name to
AllocatedDim(b) ==
    IF b.dim_type = Local
    THEN _stack[current_frame(_stack)].name_to_dim[b.name]
    ELSE _stack[global_frame(_stack)].name_to_dim[b.name]

\* C20: resolution is stable while a scope stays open.  Whenever a frame is the
\* current frame, every name for which a request returned a dim by allocating
\* it while this frame was current, however many pushes, requests and pops
\* ago, is still resolved to that dim by a request without an explicit dim,
\* under any policy.
StableResolution ==
    \A b \in made[current_frame(_stack)] : \A dim_type \in DimType :
        LET o == request(_stack, _first_available_dim, b.name, NullDim, dim_type)
        IN  o.kind = "ok" /\ o.dim = AllocatedDim(b)

====
